---- MODULE Spec2Model ----
(***************************************************************************)
(* Smart File System of Mindful-Organizer: FileIndexer (SQLite store,      *)
(* index_file, search_similar_files), FileClusterer, OutputGenerator and   *)
(* the SmartFileSystem orchestrator, as a state machine.                   *)
(*                                                                         *)
(* Representation.  A Python dict is a record holding exactly the keys the *)
(* code puts in it.  Python None and SQL NULL are the value None.  A BLOB  *)
(* column holding an embedding is Blob(v).  A call's outcome is kept in    *)
(* the variable last: the operation, its arguments, the exception that     *)
(* escaped it ("None" when it returned) and the value it returned.         *)
(***************************************************************************)
EXTENDS Integers, Sequences, FiniteSets, TLC

\* Largest top_k a caller passes to search_similar_files (0..MaxTopK).
MaxTopK == 3

\* Most files for which one walk of index_directory meets an I/O or store error.
MaxFaults == 1

\* Most rows a clustering run reads from the store.
MaxFiles == 4

None == [is_none |-> TRUE]

(***************************************************************************)
(* The file system the indexer walks.                                      *)
(***************************************************************************)

\* A path is kept as its parts; str(path) is the record itself.
Path(parent, stem, suffix) == [parent |-> parent, stem |-> stem, suffix |-> suffix]

\* The regular files that may exist under the indexed directory "d".
Paths ==
  { Path("d", "a", ".txt"), Path("d", "b", ".MD"), Path("d/sub", "c", ".bin") }

\* Directories: "d" and "d/sub" exist, "missing" does not.
ExistingDirs == {"d", "d/sub"}
Directories == {"d", "missing"}

\* Bytes are named symbols: "x" and "y" are ASCII letters, "cr" and "nl" are
\* carriage return and newline, and "ff" is the byte 0xFF, which no UTF-8
\* text contains.
ValidBytes == {"x", "y", "cr", "nl"}

\* What a file can hold: its bytes and its st_mtime.
TextX == [bytes |-> <<"x">>, mtime |-> 1]
TextY == [bytes |-> <<"y", "cr", "nl">>, mtime |-> 2]
Binary == [bytes |-> <<"ff", "x">>, mtime |-> 3]

\* The versions each file takes: a.txt holds either text or bytes that are
\* not UTF-8, b.MD either text, c.bin the binary bytes.
FileVersions(path) ==
  CASE path.suffix = ".txt" -> {TextX, TextY, Binary}
    [] path.suffix = ".MD"  -> {TextX, TextY}
    [] OTHER                -> {Binary}

\* Path.suffix.lower()
Lower(suffix) ==
  CASE suffix = ".MD"  -> ".md"
    [] suffix = ".TXT" -> ".txt"
    [] OTHER           -> suffix

\* Path.name
Name(path) == <<path.stem, path.suffix>>

\* The database the constructor is given.
DbPaths == {"file_index.db", ":memory:"}

\* Output paths of reports and pictures: "out/report" can be written,
\* "ro/report" lies in a directory that cannot.
OutPaths == {"out/report", "ro/report"}
Writable(output_path) == output_path = "out/report"
Formats == {"json", "txt", "xml"}

\* Query texts of search_similar_files.
Queries == {<<"x">>, <<"y">>}

VARIABLES
  db_path,           \* FileIndexer.db_path
  fs,                \* the files under "d": path -> None | file version
  db,                \* the database file at db_path: its tables and the rows of files
  output_generator,  \* SmartFileSystem.output_generator: None | OutputGenerator
  out_files,         \* the output files: path -> None | what was written
  last,              \* the outcome of the last call
  indexed,           \* history: path -> None | the file version read by the
                     \* latest index_file of the path that returned True
  calls,             \* the index_file calls running side by side: process ->
                     \* its position and local variables (<<>> when none run)
  clustering         \* the local variables of a run of
                     \* FileClusterer.cluster_files (None when none runs)

vars == <<db_path, fs, db, output_generator, out_files, last, indexed, calls,
          clustering>>

(***************************************************************************)
(* FileIndexer                                                             *)
(***************************************************************************)

\* Extensions whose content is read and embedded.
TextTypes == {".txt", ".md", ".py", ".js", ".html", ".css", ".json"}

Blob(v) == [blob |-> v]

Count(seq, x) == Cardinality({i \in 1..Len(seq) : seq[i] = x})

\* open(file_path, 'r', encoding='utf-8').read() raises UnicodeDecodeError on
\* a byte sequence that is not UTF-8.
Decodable(bytes) == \A i \in 1..Len(bytes) : bytes[i] \in ValidBytes

\* The text read from decodable bytes in text mode: one character per ASCII
\* byte, with "\r\n" and a lone "\r" both read as the one character "\n".
RECURSIVE Decode(_)
Decode(bytes) ==
  IF Len(bytes) = 0 THEN <<>>
  ELSE IF Head(bytes) = "cr"
  THEN IF Len(bytes) >= 2 /\ bytes[2] = "nl"
       THEN <<"nl">> \o Decode(SubSeq(bytes, 3, Len(bytes)))
       ELSE <<"nl">> \o Decode(Tail(bytes))
  ELSE <<Head(bytes)>> \o Decode(Tail(bytes))

\* SHA-256 of the bytes, kept as the tagged bytes (no two contents collide).
_calculate_file_hash(bytes) == <<"sha256">> \o bytes

\* SentenceTransformer.encode: a fixed vector for each text, never the zero
\* vector.
_generate_embedding(text) ==
  CASE text = <<"x">>       -> <<1, 0>>
    [] text = <<"y">>       -> <<0, 1>>
    [] text = <<"y", "nl">> -> <<1, 1>>
    [] OTHER                -> <<1, -1>>

\* A database with no table, as a new ':memory:' connection sees it.
EmptyDatabase == [tables |-> {}, files |-> <<>>]

\* sqlite3.connect(self.db_path): every connection to ':memory:' opens a new,
\* private and empty database; any other path opens the database file.
Connect(database) == IF db_path = ":memory:" THEN EmptyDatabase ELSE database

\* commit and leaving the with block: what the database file holds after
\* the connection conn has committed.
Commit(database, conn) == IF db_path = ":memory:" THEN database ELSE conn

\* CREATE TABLE IF NOT EXISTS files (... path TEXT UNIQUE ...)
_init_db(database) ==
  LET conn == Connect(database)
  IN  Commit(database, [conn EXCEPT !.tables = @ \cup {"files"}])

\* INSERT OR IGNORE in place of INSERT OR REPLACE: a row whose path is
\* already stored is dropped and the old row stays.
InsertOrIgnore(conn, row) ==
  IF \E i \in 1..Len(conn.files) : conn.files[i].path = row.path
  THEN conn
  ELSE [conn EXCEPT !.files = Append(@, row)]

\* INSERT OR REPLACE INTO files: the UNIQUE(path) conflict deletes the old
\* row, and the new row gets the next AUTOINCREMENT id, the end of the table
\* in rowid order.
InsertOrReplace(conn, row) ==
  [conn EXCEPT !.files = Append(SelectSeq(@, LAMBDA r : r.path /= row.path), row)]

\* index_file with the decode failure handled inside: a text-type file that
\* is not UTF-8 is stored as a binary file is, without embedding or metadata.
index_file_decode_fallback(file_path, fault, database) ==
  LET file == fs[file_path]
      failure == [ok |-> FALSE, db |-> database]
  IN
  IF fault \/ file = None THEN failure
  ELSE
    LET file_type == Lower(file_path.suffix)
        is_text == file_type \in TextTypes /\ Decodable(file.bytes)
        content == Decode(file.bytes)
        conn == Connect(database)
        row == [ path          |-> file_path,
                 file_hash     |-> _calculate_file_hash(file.bytes),
                 last_modified |-> file.mtime,
                 size          |-> Len(file.bytes),
                 file_type     |-> file_type,
                 metadata      |-> IF is_text
                                   THEN { <<"content_length", Len(content)>>,
                                          <<"lines", Count(content, "nl") + 1>> }
                                   ELSE {},
                 embedding     |-> IF is_text
                                   THEN Blob(_generate_embedding(content))
                                   ELSE None ]
    IN
    IF "files" \notin conn.tables THEN failure
    ELSE [ok |-> TRUE, db |-> Commit(database, InsertOrReplace(conn, row))]

\* index_file whose upsert is a DELETE and an INSERT outside one
\* transaction: a call that fails after the file was found has already
\* deleted the row of the path.
index_file_delete_first(file_path, fault, database) ==
  LET file == fs[file_path]
      conn == Connect(database)
      deleted == Commit(database,
                        [conn EXCEPT !.files =
                           SelectSeq(@, LAMBDA r : r.path /= file_path)])
  IN
  IF file = None THEN [ok |-> FALSE, db |-> database]
  ELSE IF fault \/ "files" \notin conn.tables
              \/ (Lower(file_path.suffix) \in TextTypes /\ ~Decodable(file.bytes))
  THEN [ok |-> FALSE, db |-> IF "files" \in conn.tables THEN deleted ELSE database]
  ELSE
    LET is_text == Lower(file_path.suffix) \in TextTypes
        content == Decode(file.bytes)
        row == [ path          |-> file_path,
                 file_hash     |-> _calculate_file_hash(file.bytes),
                 last_modified |-> file.mtime,
                 size          |-> Len(file.bytes),
                 file_type     |-> Lower(file_path.suffix),
                 metadata      |-> IF is_text
                                   THEN { <<"content_length", Len(content)>>,
                                          <<"lines", Count(content, "nl") + 1>> }
                                   ELSE {},
                 embedding     |-> IF is_text
                                   THEN Blob(_generate_embedding(content))
                                   ELSE None ]
    IN  [ok |-> TRUE, db |-> Commit(database, InsertOrReplace(conn, row))]

\* index_file(file_path) -> [ok, db].  fault: an OSError or sqlite3.Error is
\* raised in this call (open, read, stat, execute or commit); every exception
\* is caught, the transaction is rolled back and False is returned.
index_file(file_path, fault, database) ==
  LET file == fs[file_path]
      failure == [ok |-> FALSE, db |-> database]
  IN
  IF fault \/ file = None THEN failure
  ELSE
    LET file_hash == _calculate_file_hash(file.bytes)
        last_modified == file.mtime
        size == Len(file.bytes)
        file_type == Lower(file_path.suffix)
        is_text == file_type \in TextTypes
    IN
    IF is_text /\ ~Decodable(file.bytes) THEN failure
    ELSE
      LET content == Decode(file.bytes)
          embedding == IF is_text THEN Blob(_generate_embedding(content)) ELSE None
          metadata ==
            IF is_text
            THEN { <<"content_length", Len(content)>>,
                   <<"lines", Count(content, "nl") + 1>> }
            ELSE {}
          conn == Connect(database)
          row == [ path          |-> file_path,
                   file_hash     |-> file_hash,
                   last_modified |-> last_modified,
                   size          |-> size,
                   file_type     |-> file_type,
                   metadata      |-> metadata,
                   embedding     |-> embedding ]
      IN
      IF "files" \notin conn.tables THEN failure
      ELSE [ok |-> TRUE, db |-> Commit(database, InsertOrReplace(conn, row))]

\* float(np.dot(vec1, vec2) / (norm(vec1) * norm(vec2))), kept as the integer
\* 4 * cos * |cos|, which is exact for the vectors of _generate_embedding and
\* orders as the cosine does.
Dot(v, w) == v[1] * w[1] + v[2] * w[2]
_cosine_similarity(blob1, blob2) ==
  LET d == Dot(blob1.blob, blob2.blob)
      n == Dot(blob1.blob, blob1.blob) * Dot(blob2.blob, blob2.blob)
  IN  (IF d < 0 THEN -1 ELSE 1) * ((4 * d * d) \div n)

\* A descending sort that is not stable: rows of equal similarity come out
\* in the reverse of their scan order.
OrderBySimilarityDescUnstable(rows) ==
  LET n == Len(rows)
      Rank(i) ==
        1 + Cardinality({j \in 1..n : rows[j].similarity > rows[i].similarity})
          + Cardinality({j \in (i + 1)..n : rows[j].similarity = rows[i].similarity})
  IN  [k \in 1..n |-> rows[CHOOSE i \in 1..n : Rank(i) = k]]

\* ORDER BY similarity DESC: rows of equal similarity stay in scan (rowid)
\* order, as they do in SQLite's sorter for a query with a LIMIT.
OrderBySimilarityDesc(rows) ==
  LET n == Len(rows)
      Rank(i) ==
        1 + Cardinality({j \in 1..n : rows[j].similarity > rows[i].similarity})
          + Cardinality({j \in 1..(i - 1) : rows[j].similarity = rows[i].similarity})
  IN  [k \in 1..n |-> rows[CHOOSE i \in 1..n : Rank(i) = k]]

\* LIMIT ?: a negative limit means no limit.
Limit(rows, top_k) ==
  IF top_k < 0 \/ top_k >= Len(rows) THEN rows ELSE SubSeq(rows, 1, top_k)

\* search_similar_files(query, top_k) -> [raised, ret]
search_similar_files(query, top_k, database) ==
  LET query_embedding == Blob(_generate_embedding(query))
      conn == Connect(database)
  IN
  IF "files" \notin conn.tables
  THEN [raised |-> "sqlite3.OperationalError", ret |-> None]
  ELSE
    LET selected == SelectSeq(conn.files, LAMBDA r : r.embedding /= None)
        scored == [i \in 1..Len(selected) |->
                    [ path       |-> selected[i].path,
                      similarity |-> _cosine_similarity(selected[i].embedding,
                                                        query_embedding) ]]
    IN  [raised |-> "None",
         ret |-> [list |-> Limit(OrderBySimilarityDesc(scored), top_k)]]

(***************************************************************************)
(* FileClusterer                                                           *)
(***************************************************************************)

\* The names the module file_clusterer.py binds at import time.
file_clusterer_globals ==
  { "np", "List", "Dict", "Optional", "HDBSCAN", "TSNE", "SentenceTransformer",
    "FileIndexer", "umap", "plt", "json", "Path", "FileClusterer" }

\* _get_all_embeddings() -> [raised, ret].  ret is None for the pair
\* (None, None), else the array of embeddings and the list of paths, both in
\* scan order.
_get_all_embeddings(database) ==
  IF "sqlite3" \notin file_clusterer_globals
  THEN [raised |-> "NameError", ret |-> None]
  ELSE
    LET conn == Connect(database) IN
    IF "files" \notin conn.tables
    THEN [raised |-> "sqlite3.OperationalError", ret |-> None]
    ELSE
      LET results == SelectSeq(conn.files, LAMBDA r : r.embedding /= None) IN
      IF results = <<>>
      THEN [raised |-> "None", ret |-> None]
      ELSE [raised |-> "None",
            ret |-> [ embeddings |-> [i \in 1..Len(results) |-> results[i].embedding.blob],
                      file_paths |-> [i \in 1..Len(results) |-> results[i].path] ]]

\* FileClusterer.cluster_files() -> [raised, ret].  `not embeddings` is True
\* for None; for the array of N >= 1 embeddings (more than one number) its
\* truth value is ambiguous and numpy raises ValueError, so no call gets past
\* the test.
FileClusterer_cluster_files(database) ==
  LET got == _get_all_embeddings(database) IN
  IF got.raised /= "None" THEN got
  ELSE IF got.ret = None
  THEN [raised |-> "None",
        ret |-> [status |-> "error", message |-> "No embeddings found"]]
  ELSE [raised |-> "ValueError", ret |-> None]

\* The states numpy's global random generator can be in when UMAP draws
\* from it.
RandomStates == {0, 1}

\* _reduce_dimensionality(embeddings): umap.UMAP is constructed without
\* random_state, so fit_transform draws from numpy's global generator; the
\* reduced rows are a function of the embeddings and of the state of that
\* generator, which the second parameter stands for.
_reduce_dimensionality(embeddings, random_state) ==
  [i \in 1..Len(embeddings) |-> [umap |-> embeddings[i], random_state |-> random_state]]

Range(seq) == {seq[i] : i \in 1..Len(seq)}

\* The positions of the members of a cluster, in row order
\* (np.where(clusters == cluster_id)[0]).
Members(clusters, cluster_id) ==
  SelectSeq([i \in 1..Len(clusters) |-> i], LAMBDA i : clusters[i] = cluster_id)

\* As _generate_cluster_labels, but np.argmin, a position within the cluster,
\* is used as a position in file_paths.
_generate_cluster_labels_local_index(embeddings, clusters, file_paths) ==
  LET unique_clusters == Range(clusters)
      Label(cluster_id) ==
        LET cluster_indices == Members(clusters, cluster_id)
            n == Len(cluster_indices)
            Sum(k) == LET RECURSIVE Add(_)
                          Add(m) == IF m = 0 THEN 0
                                    ELSE embeddings[cluster_indices[m]][k] + Add(m - 1)
                      IN  Add(n)
            Dist(m) ==
              LET e == embeddings[cluster_indices[m]]
              IN  (n * e[1] - Sum(1)) * (n * e[1] - Sum(1))
                    + (n * e[2] - Sum(2)) * (n * e[2] - Sum(2))
            argmin == CHOOSE m \in 1..n :
                        /\ \A j \in 1..n : Dist(m) <= Dist(j)
                        /\ \A j \in 1..(m - 1) : Dist(j) > Dist(m)
            closest_idx == cluster_indices[argmin]
        IN  [ text |-> "Cluster", cluster_id |-> cluster_id,
              name |-> Name(file_paths[argmin]) ]
  IN  [ cluster_id \in unique_clusters |->
          IF cluster_id = -1 THEN [text |-> "Uncategorized"]
          ELSE Label(cluster_id) ]

\* _generate_cluster_labels(embeddings, clusters, file_paths): the noise id
\* -1 gets "Uncategorized"; any other id gets "Cluster <id>: <name>", name
\* being that of the member nearest the centroid of the cluster, the first
\* such member in row order (np.argmin).  With n members and S the sum of
\* their embeddings, the distance of e to the centroid S/n is compared as
\* |n*e - S|^2, an integer.
_generate_cluster_labels(embeddings, clusters, file_paths) ==
  LET unique_clusters == Range(clusters)
      Label(cluster_id) ==
        LET cluster_indices == Members(clusters, cluster_id)
            n == Len(cluster_indices)
            Sum(k) == LET RECURSIVE Add(_)
                          Add(m) == IF m = 0 THEN 0
                                    ELSE embeddings[cluster_indices[m]][k] + Add(m - 1)
                      IN  Add(n)
            Dist(m) ==
              LET e == embeddings[cluster_indices[m]]
              IN  (n * e[1] - Sum(1)) * (n * e[1] - Sum(1))
                    + (n * e[2] - Sum(2)) * (n * e[2] - Sum(2))
            argmin == CHOOSE m \in 1..n :
                        /\ \A j \in 1..n : Dist(m) <= Dist(j)
                        /\ \A j \in 1..(m - 1) : Dist(j) > Dist(m)
            closest_idx == cluster_indices[argmin]
        IN  [ text |-> "Cluster", cluster_id |-> cluster_id,
              name |-> Name(file_paths[closest_idx]) ]
  IN  [ cluster_id \in unique_clusters |->
          IF cluster_id = -1 THEN [text |-> "Uncategorized"]
          ELSE Label(cluster_id) ]

(***************************************************************************)
(* OutputGenerator                                                         *)
(***************************************************************************)

\* The names the module output_generator.py binds at import time.
output_generator_globals ==
  { "Dict", "List", "Optional", "json", "Path", "plt", "datetime",
    "OutputGenerator" }

OutputGenerator(clustering_results) == [clustering_results |-> clustering_results]

\* _get_example_files with the loop left one member late (> for >=).
_get_example_files_late_break(self, cluster_id, count) ==
  LET clusters == self.clustering_results.clusters
      file_paths == self.clustering_results.file_paths
      members == Members(clusters, cluster_id)
      names == [k \in 1..Len(members) |-> Name(file_paths[members[k]])]
  IN  IF Len(names) > count THEN SubSeq(names, 1, count + 1) ELSE names

\* _get_example_files(cluster_id, count): the names of the first count
\* members of the cluster, in row order.
_get_example_files(self, cluster_id, count) ==
  LET clusters == self.clustering_results.clusters
      file_paths == self.clustering_results.file_paths
      members == Members(clusters, cluster_id)
      names == [k \in 1..Len(members) |-> Name(file_paths[members[k]])]
  IN  IF Len(names) >= count THEN SubSeq(names, 1, count) ELSE names

\* The order in which a set of small integers is iterated (CPython: the
\* ids 0, 1, ... in their hash slots, -1, whose hash is -2, after them).
RECURSIVE SetOrder(_)
SetOrder(ids) ==
  IF ids = {} THEN <<>>
  ELSE LET nonneg == {c \in ids : c >= 0}
           first == IF nonneg /= {}
                    THEN CHOOSE c \in nonneg : \A o \in nonneg : c <= o
                    ELSE CHOOSE c \in ids : TRUE
       IN  <<first>> \o SetOrder(ids \ {first})

\* generate_cluster_report that leaves the noise id out of cluster_counts.
generate_cluster_report_without_noise(self) ==
  LET results == self.clustering_results
      ids == Range(results.clusters) \ {-1}
      cluster_counts == [c \in ids |-> Count(results.clusters, c)]
      keys == SetOrder(DOMAIN cluster_counts)
  IN  [ total_files    |-> Len(results.file_paths),
        total_clusters |-> Cardinality(Range(results.clusters)) - 1,
        cluster_details |->
          [ k \in 1..Len(keys) |->
              [ cluster_id    |-> keys[k],
                label         |-> IF keys[k] \in DOMAIN results.cluster_labels
                                  THEN results.cluster_labels[keys[k]]
                                  ELSE [text |-> "Unlabeled"],
                file_count    |-> cluster_counts[keys[k]],
                example_files |-> _get_example_files(self, keys[k], 3) ] ] ]

\* generate_cluster_report(): the report without its timestamp, one entry of
\* cluster_details for each key of cluster_counts.
generate_cluster_report(self) ==
  LET results == self.clustering_results
      cluster_counts == [c \in Range(results.clusters) |-> Count(results.clusters, c)]
      keys == SetOrder(DOMAIN cluster_counts)
  IN  [ total_files    |-> Len(results.file_paths),
        total_clusters |-> Cardinality(Range(results.clusters)) - 1,
        cluster_details |->
          [ k \in 1..Len(keys) |->
              [ cluster_id    |-> keys[k],
                label         |-> IF keys[k] \in DOMAIN results.cluster_labels
                                  THEN results.cluster_labels[keys[k]]
                                  ELSE [text |-> "Unlabeled"],
                file_count    |-> cluster_counts[keys[k]],
                example_files |-> _get_example_files(self, keys[k], 3) ] ] ]

\* What a file holds after open(file_path, 'w') emptied it and the write
\* ended early: some prefix of the text, not a report.
Truncated == [truncated |-> TRUE]

\* save_report(file_path, format) -> [raised, out].  open(file_path, 'w')
\* raises OSError where the path cannot be written, and empties the file
\* where it can; write_error: json.dump or f.write then raises OSError (the
\* disk is full, the device fails) before the text is complete.
save_report(self, file_path, format, write_error, files) ==
  IF format \in {"json", "txt"}
  THEN IF ~Writable(file_path)
       THEN [raised |-> "OSError", out |-> files]
       ELSE IF write_error
       THEN [raised |-> "OSError", out |-> [files EXCEPT ![file_path] = Truncated]]
       ELSE [raised |-> "None",
             out |-> [files EXCEPT ![file_path] =
                        [format |-> format, report |-> generate_cluster_report(self)]]]
  ELSE [raised |-> "ValueError", out |-> files]

\* generate_cluster_visualization(save_path) -> [raised, out].  np and TSNE
\* are not names of the module, so the first use of np raises NameError.
generate_cluster_visualization(self, save_path, files) ==
  IF "reduced_embeddings" \notin DOMAIN self.clustering_results
  THEN [raised |-> "ValueError", out |-> files]
  ELSE IF ~({"np", "TSNE"} \subseteq output_generator_globals)
  THEN [raised |-> "NameError", out |-> files]
  ELSE IF save_path = ""
  THEN [raised |-> "None", out |-> files]
  ELSE IF Writable(save_path)
  THEN [raised |-> "None",
        out |-> [files EXCEPT ![save_path] = [format |-> "png", report |-> None]]]
  ELSE [raised |-> "OSError", out |-> files]

(***************************************************************************)
(* SmartFileSystem                                                         *)
(***************************************************************************)

\* The subdirectory "d/sub", which rglob('*') yields among the entries.
SubDirEntry == Path("d", "sub", "")

\* path.rglob('*'): every file and directory below "d".
Entries == {p \in Paths : fs[p] /= None} \cup {SubDirEntry}

\* file_path.is_file()
is_file(entry) == entry \in Paths /\ fs[entry] /= None

\* The orders in which a walk may yield the entries: the files in any order
\* (the order of rglob is that of the directory listings, which nothing
\* fixes); the subdirectory, which the loop skips, is put first.
Orderings(S) ==
  { w \in [1..Cardinality(S) -> S] :
      \A i, j \in 1..Cardinality(S) : w[i] = w[j] => i = j }
Walks == { <<SubDirEntry>> \o w : w \in Orderings(Entries \ {SubDirEntry}) }

\* The sets of files for which a walk meets an error.
FaultSets == { f \in SUBSET (Entries \ {SubDirEntry}) : Cardinality(f) <= MaxFaults }

\* A loop that ends at the first file index_file fails on, as it would if
\* the exception of index_file reached the loop.
RECURSIVE IndexWalkStopping(_, _, _, _, _, _)
IndexWalkStopping(walk, faults, database, file_count, succeeded, visited) ==
  IF Len(walk) = 0
  THEN [db |-> database, file_count |-> file_count, succeeded |-> succeeded,
        visited |-> visited]
  ELSE
    LET file_path == Head(walk) IN
    IF is_file(file_path)
    THEN LET done == index_file(file_path, file_path \in faults, database)
         IN  IF done.ok
             THEN IndexWalkStopping(Tail(walk), faults, done.db, file_count + 1,
                                    succeeded \cup {file_path},
                                    visited \cup {file_path})
             ELSE [db |-> done.db, file_count |-> file_count,
                   succeeded |-> succeeded, visited |-> visited \cup {file_path}]
    ELSE IndexWalkStopping(Tail(walk), faults, database, file_count, succeeded,
                           visited)

\* The loop of index_directory over the entries left in walk.
\* It gives the database, the count, the paths for which index_file
\* returned True and the paths index_file was called on.
RECURSIVE IndexWalk(_, _, _, _, _, _)
IndexWalk(walk, faults, database, file_count, succeeded, visited) ==
  IF Len(walk) = 0
  THEN [db |-> database, file_count |-> file_count, succeeded |-> succeeded,
        visited |-> visited]
  ELSE
    LET file_path == Head(walk) IN
    IF is_file(file_path)
    THEN LET done == index_file(file_path, file_path \in faults, database)
         IN  IF done.ok
             THEN IndexWalk(Tail(walk), faults, done.db, file_count + 1,
                            succeeded \cup {file_path}, visited \cup {file_path})
             ELSE IndexWalk(Tail(walk), faults, done.db, file_count, succeeded,
                            visited \cup {file_path})
    ELSE IndexWalk(Tail(walk), faults, database, file_count, succeeded, visited)

\* index_directory(directory_path) -> [raised, ret, db, succeeded, visited];
\* time_elapsed, a wall-clock reading, is left out of the result.
index_directory(directory_path, walk, faults, database) ==
  IF directory_path \notin ExistingDirs
  THEN [raised |-> "FileNotFoundError", ret |-> None, db |-> database,
        succeeded |-> {}, visited |-> {}]
  ELSE
    LET done == IndexWalk(walk, faults, database, 0, {}, {})
    IN  [ raised    |-> "None",
          ret       |-> [status |-> "success", files_indexed |-> done.file_count],
          db        |-> done.db,
          succeeded |-> done.succeeded,
          visited   |-> done.visited ]

\* SmartFileSystem.cluster_files() from line 51 on, given the outcome
\* [raised, ret] of self.clusterer.cluster_files() at line 48.
cluster_files_after(clustering_results, generator) ==
  IF clustering_results.raised /= "None"
  THEN [raised |-> clustering_results.raised, ret |-> None,
        output_generator |-> generator]
  ELSE IF "status" \notin DOMAIN clustering_results.ret
  THEN [raised |-> "KeyError", ret |-> None, output_generator |-> generator]
  ELSE IF clustering_results.ret.status = "error"
  THEN [raised |-> "None", ret |-> clustering_results.ret,
        output_generator |-> generator]
  ELSE [raised |-> "None",
        ret |-> [ status |-> "success",
                  clusters_found |->
                    Cardinality(Range(clustering_results.ret.clusters)) - 1 ],
        output_generator |-> OutputGenerator(clustering_results.ret)]

\* SmartFileSystem.cluster_files() -> [raised, ret, output_generator]
cluster_files(database, generator) ==
  cluster_files_after(FileClusterer_cluster_files(database), generator)

\* The result both report operations give before any clustering.
MustClusterFirst == [status |-> "error", message |-> "Must cluster files first"]

\* generate_report without its test of output_generator: save_report is
\* called on None, and the AttributeError becomes the error result.
generate_report_unguarded(generator, output_path, format, write_error, files) ==
  IF generator = None
  THEN [raised |-> "None",
        ret |-> [status |-> "error", message |-> "AttributeError"], out |-> files]
  ELSE
    LET saved == save_report(generator, output_path, format, write_error, files) IN
    IF saved.raised = "None"
    THEN [raised |-> "None",
          ret |-> [status |-> "success", output_path |-> output_path],
          out |-> saved.out]
    ELSE [raised |-> "None",
          ret |-> [status |-> "error", message |-> saved.raised], out |-> saved.out]

\* generate_report without its try block: an exception of save_report leaves
\* the method.
generate_report_uncaught(generator, output_path, format, write_error, files) ==
  IF generator = None
  THEN [raised |-> "None", ret |-> MustClusterFirst, out |-> files]
  ELSE
    LET saved == save_report(generator, output_path, format, write_error, files) IN
    IF saved.raised = "None"
    THEN [raised |-> "None",
          ret |-> [status |-> "success", output_path |-> output_path],
          out |-> saved.out]
    ELSE [raised |-> saved.raised, ret |-> None, out |-> saved.out]

\* generate_report(output_path, format) -> [raised, ret, out]; an exception
\* of save_report becomes an error result whose message is the exception's.
generate_report(generator, output_path, format, write_error, files) ==
  IF generator = None
  THEN [raised |-> "None", ret |-> MustClusterFirst, out |-> files]
  ELSE
    LET saved == save_report(generator, output_path, format, write_error, files) IN
    IF saved.raised = "None"
    THEN [raised |-> "None",
          ret |-> [status |-> "success", output_path |-> output_path],
          out |-> saved.out]
    ELSE [raised |-> "None",
          ret |-> [status |-> "error", message |-> saved.raised], out |-> saved.out]

\* visualize_clusters(output_path) -> [raised, ret, out]; output_path "" stands for
\* the falsy values None and ''.
visualize_clusters(generator, output_path, files) ==
  IF generator = None
  THEN [raised |-> "None", ret |-> MustClusterFirst, out |-> files]
  ELSE
    LET drawn == generate_cluster_visualization(generator, output_path, files) IN
    IF drawn.raised = "None"
    THEN [raised |-> "None",
          ret |-> [ status |-> "success",
                    output_path |-> IF output_path /= "" THEN output_path
                                    ELSE "displayed" ],
          out |-> drawn.out]
    ELSE [raised |-> "None",
          ret |-> [status |-> "error", message |-> drawn.raised], out |-> drawn.out]

\* get_similar_files(query, top_k)
get_similar_files(query, top_k, database) ==
  search_similar_files(query, top_k, database)

(***************************************************************************)
(* cli.py                                                                  *)
(***************************************************************************)

\* The argument lists parse_args accepts, one namespace each; --db is the
\* database of the state, --format is one of the two choices.
IndexArgs == { [command |-> "index", directory |-> d] : d \in Directories }
ClusterArgs == { [command |-> "cluster"] }
ReportArgs ==
  { [command |-> "report", output |-> o, format |-> f] :
      o \in OutPaths, f \in {"json", "txt"} }
SearchArgs ==
  { [command |-> "search", query |-> q, top_k |-> k] :
      q \in Queries, k \in {1, MaxTopK} }

\* print(f"Error: {e}", file=sys.stderr); the message of an exception is
\* kept as the exception's name, that of KeyError as the missing key.
ErrorLine(e) == [line |-> "Error:", message |-> e]

\* What main() leaves when the try block ends with an exception e:
\* the line on stderr and sys.exit(1).
Failed(core, database, files) ==
  [ core |-> core, stdout |-> <<>>, stderr |-> <<ErrorLine(core.raised)>>,
    exit |-> 1, db |-> database, out |-> files, succeeded |-> {} ]

\* What main() leaves when the try block ends without exception.
Printed(core, stdout, database, files, succeeded) ==
  [ core |-> core, stdout |-> stdout, stderr |-> <<>>, exit |-> 0,
    db |-> database, out |-> files, succeeded |-> succeeded ]

\* The index branch, r the outcome of sfs.index_directory(args.directory).
main_index(r, files) ==
  IF r.raised /= "None"
  THEN Failed([raised |-> r.raised, ret |-> r.ret], r.db, files)
  ELSE Printed([raised |-> r.raised, ret |-> r.ret],
               << [line |-> "Indexed", files_indexed |-> r.ret.files_indexed] >>,
               r.db, files, r.succeeded)

\* The cluster branch, r the outcome of sfs.cluster_files(): the error
\* result has no key 'clusters_found', and the KeyError is reported.
main_cluster(r, database, files) ==
  IF r.raised /= "None"
  THEN Failed([raised |-> r.raised, ret |-> r.ret], database, files)
  ELSE IF "clusters_found" \notin DOMAIN r.ret
  THEN [ Failed([raised |-> r.raised, ret |-> r.ret], database, files)
           EXCEPT !.stderr = <<ErrorLine("'clusters_found'")>> ]
  ELSE Printed([raised |-> r.raised, ret |-> r.ret],
               << [line |-> "Found", clusters_found |-> r.ret.clusters_found] >>,
               database, files, {})

\* The report branch, r the outcome of sfs.generate_report(args.output,
\* args.format): the result is not looked at.
main_report(r, output, database) ==
  Printed([raised |-> "None", ret |-> r.ret],
          << [line |-> "Report saved to", output |-> output] >>,
          database, r.out, {})

\* The search branch, r the outcome of sfs.get_similar_files(args.query,
\* args.top_k).
main_search(r, database, files) ==
  IF r.raised /= "None"
  THEN Failed([raised |-> r.raised, ret |-> r.ret], database, files)
  ELSE Printed([raised |-> r.raised, ret |-> r.ret],
               << [line |-> "Similar files:"] >>
                 \o [ i \in 1..Len(r.ret.list) |->
                        [ line |-> "result", i |-> i,
                          path |-> r.ret.list[i].path,
                          similarity |-> r.ret.list[i].similarity ] ],
               database, files, {})

\* main() -> [core, stdout, stderr, exit, db, out, succeeded].  core is the
\* outcome of the call on the SmartFileSystem that main constructs on the
\* database (its constructor runs _init_db), whose output_generator is None.
main(args, walk, faults, database, files) ==
  CASE args.command = "index" ->
         main_index(index_directory(args.directory, walk, faults,
                                    _init_db(database)), files)
    [] args.command = "cluster" ->
         main_cluster(cluster_files(_init_db(database), None),
                      _init_db(database), files)
    [] args.command = "report" ->
         main_report(generate_report(None, args.output, args.format, FALSE, files),
                     args.output, _init_db(database))
    [] args.command = "search" ->
         main_search(get_similar_files(args.query, args.top_k, _init_db(database)),
                     _init_db(database), files)

(***************************************************************************)
(* The state machine                                                       *)
(***************************************************************************)

\* env holds what the environment did to the call, NoEnv when nothing.
NoEnv == [none |-> TRUE]
NoArg == [none |-> TRUE]
Call(op, arg, env, raised, ret) ==
  [op |-> op, arg |-> arg, env |-> env, raised |-> raised, ret |-> ret]

\* SmartFileSystem(db_path) has been constructed: the indexer has run
\* _init_db, no clustering result is cached, the directory holds any files.
Init ==
  /\ db_path \in DbPaths
  /\ fs \in { f \in [Paths -> {TextX, TextY, Binary, None}] :
               \A p \in Paths : f[p] \in FileVersions(p) \cup {None} }
  /\ db = _init_db(EmptyDatabase)
  /\ output_generator = None
  /\ out_files = [o \in OutPaths |-> None]
  /\ last = Call("__init__", [db_path |-> db_path], NoEnv, "None", None)
  /\ indexed = [p \in Paths |-> None]
  /\ calls = <<>>
  /\ clustering = None

\* Another program writes a file under "d".
WriteFile(path, version) ==
  /\ fs[path] /= version
  /\ fs' = [fs EXCEPT ![path] = version]
  /\ last' = Call("write_file", NoArg, NoEnv, "None", None)
  /\ UNCHANGED <<calls, clustering, db_path, db, output_generator, out_files,
               indexed>>

\* Another program removes a file under "d".
RemoveFile(path) ==
  /\ fs[path] /= None
  /\ fs' = [fs EXCEPT ![path] = None]
  /\ last' = Call("remove_file", NoArg, NoEnv, "None", None)
  /\ UNCHANGED <<calls, clustering, db_path, db, output_generator, out_files,
               indexed>>

\* index_directory that drops the cached clustering result, as a store
\* that changed under it would suggest.
IndexDirectoryInvalidating(directory_path, walk, faults) ==
  LET r == index_directory(directory_path, walk, faults, db)
      rerun == /\ last.op = "index_directory"
               /\ last.arg.directory_path = directory_path
               /\ last.raised = "None"
               /\ last.env.io_errors = {}
               /\ faults = {}
  IN
  /\ db' = r.db
  /\ indexed' = [p \in Paths |-> IF p \in r.succeeded THEN fs[p] ELSE indexed[p]]
  /\ last' = Call("index_directory", [directory_path |-> directory_path],
                  [io_errors |-> faults, rerun |-> rerun, succeeded |-> r.succeeded,
                   visited |-> r.visited],
                  r.raised, r.ret)
  /\ output_generator' = IF r.raised = "None" THEN None ELSE output_generator
  /\ UNCHANGED <<calls, clustering, db_path, fs, out_files>>

\* A call that directly follows a call of index_directory on the same
\* directory, neither meeting an error, is a rerun: no file has changed
\* between the two.
IndexDirectory(directory_path, walk, faults) ==
  LET r == index_directory(directory_path, walk, faults, db)
      rerun == /\ last.op = "index_directory"
               /\ last.arg.directory_path = directory_path
               /\ last.raised = "None"
               /\ last.env.io_errors = {}
               /\ faults = {}
  IN
  /\ db' = r.db
  /\ indexed' = [p \in Paths |-> IF p \in r.succeeded THEN fs[p] ELSE indexed[p]]
  /\ last' = Call("index_directory", [directory_path |-> directory_path],
                  [io_errors |-> faults, rerun |-> rerun, succeeded |-> r.succeeded,
                   visited |-> r.visited],
                  r.raised, r.ret)
  /\ UNCHANGED <<calls, clustering, db_path, fs, output_generator, out_files>>

ClusterFiles ==
  LET r == cluster_files(db, output_generator) IN
  /\ output_generator' = r.output_generator
  /\ last' = Call("cluster_files", NoArg, NoEnv, r.raised, r.ret)
  /\ UNCHANGED <<calls, clustering, db_path, fs, db, out_files, indexed>>

GenerateReport(output_path, format, write_error) ==
  LET r == generate_report(output_generator, output_path, format, write_error,
                           out_files) IN
  /\ out_files' = r.out
  /\ last' = Call("generate_report",
                  [output_path |-> output_path, format |-> format],
                  [write_error |-> write_error], r.raised, r.ret)
  /\ UNCHANGED <<calls, clustering, db_path, fs, db, output_generator, indexed>>

VisualizeClusters(output_path) ==
  LET r == visualize_clusters(output_generator, output_path, out_files) IN
  /\ out_files' = r.out
  /\ last' = Call("visualize_clusters", [output_path |-> output_path],
                  NoEnv, r.raised, r.ret)
  /\ UNCHANGED <<calls, clustering, db_path, fs, db, output_generator, indexed>>

GetSimilarFiles(query, top_k) ==
  LET r == get_similar_files(query, top_k, db) IN
  /\ last' = Call("get_similar_files", [query |-> query, top_k |-> top_k],
                  NoEnv, r.raised, r.ret)
  /\ UNCHANGED <<calls, clustering, db_path, fs, db, output_generator, out_files,
               indexed>>

Next ==
  \/ \E path \in Paths : \E version \in FileVersions(path) : WriteFile(path, version)
  \/ \E path \in Paths : RemoveFile(path)
  \/ \E walk \in Walks, faults \in FaultSets : IndexDirectory("d", walk, faults)
  \/ IndexDirectory("missing", <<>>, {})
  \/ ClusterFiles
  \/ \E output_path \in OutPaths, format \in Formats, write_error \in BOOLEAN :
       GenerateReport(output_path, format, write_error)
  \/ \E output_path \in OutPaths \cup {""} : VisualizeClusters(output_path)
  \/ \E query \in Queries, top_k \in 0..MaxTopK : GetSimilarFiles(query, top_k)

Spec == Init /\ [][Next]_vars

(***************************************************************************)
(* The command line: every invocation of main() is a process of its own    *)
(***************************************************************************)

\* How far the latest runs have come in the sequence index, cluster, report:
\* 1 after an index run, 2 after a cluster run that directly followed it,
\* 3 after a report run that directly followed that, else 0.
Pipeline(args) ==
  LET before == IF last.op = "main" THEN last.env.pipeline ELSE 0 IN
  CASE args.command = "index"                  -> 1
    [] args.command = "cluster" /\ before = 1 -> 2
    [] args.command = "report" /\ before = 2  -> 3
    [] OTHER                                   -> 0

\* One run of the program with the arguments args.
Main(args, walk, faults) ==
  \E m \in {main(args, walk, faults, db, out_files)} :
    /\ db' = m.db
    /\ out_files' = m.out
    /\ indexed' = [p \in Paths |-> IF p \in m.succeeded THEN fs[p] ELSE indexed[p]]
    /\ last' = Call("main", args, [pipeline |-> Pipeline(args)],
                    IF m.exit = 0 THEN "None" ELSE "SystemExit",
                    [ core |-> m.core, stdout |-> m.stdout, stderr |-> m.stderr,
                      exit |-> m.exit ])
    /\ UNCHANGED <<calls, clustering, db_path, fs, output_generator>>

\* Before the first run: the database file does not exist yet, the
\* directory holds any files, no SmartFileSystem lives between the runs.
InitCLI ==
  /\ db_path \in DbPaths
  /\ fs \in { f \in [Paths -> {TextX, TextY, Binary, None}] :
               \A p \in Paths : f[p] \in FileVersions(p) \cup {None} }
  /\ db = EmptyDatabase
  /\ output_generator = None
  /\ out_files = [o \in OutPaths |-> None]
  /\ last = Call("shell", NoArg, NoEnv, "None", None)
  /\ indexed = [p \in Paths |-> None]
  /\ calls = <<>>
  /\ clustering = None

NextCLI ==
  \/ \E args \in IndexArgs, walk \in Walks, faults \in FaultSets :
       /\ args.directory = "d"
       /\ Main(args, walk, faults)
  \/ \E args \in IndexArgs : args.directory /= "d" /\ Main(args, <<>>, {})
  \/ \E args \in ClusterArgs : Main(args, <<>>, {})
  \/ \E args \in ReportArgs : Main(args, <<>>, {})
  \/ \E args \in SearchArgs : Main(args, <<>>, {})

SpecCLI == InitCLI /\ [][NextCLI]_vars

(***************************************************************************)
(* The orchestrator with a clustering result cached                        *)
(***************************************************************************)

\* The i-th row a clustering run read from the store: its path (d/a.txt,
\* d/sub/a.txt, d/b.txt, d/sub/b.txt, ...) and its embedding.
ClusteredPath(i) ==
  Path(IF i % 2 = 1 THEN "d" ELSE "d/sub",
       CASE (i - 1) \div 2 = 0 -> "a"
         [] (i - 1) \div 2 = 1 -> "b"
         [] OTHER              -> "c",
       ".txt")
ClusteredEmbedding(i) ==
  CASE i % 4 = 1 -> <<1, 0>>
    [] i % 4 = 2 -> <<0, 1>>
    [] i % 4 = 3 -> <<1, 1>>
    [] OTHER     -> <<1, -1>>

\* The ids fit_predict assigns: -1 for noise, 0, 1 for clusters.
ClusterIds == {-1, 0, 1}

\* The dict FileClusterer.cluster_files builds from n rows and their
\* assignment.
ClusteringResult(n, clusters) ==
  LET file_paths == [i \in 1..n |-> ClusteredPath(i)]
      embeddings == [i \in 1..n |-> ClusteredEmbedding(i)]
  IN  [ file_paths         |-> file_paths,
        clusters           |-> clusters,
        cluster_labels     |-> _generate_cluster_labels(embeddings, clusters, file_paths),
        reduced_embeddings |-> _reduce_dimensionality(embeddings, 0) ]

ClusteringResults ==
  UNION { { ClusteringResult(n, clusters) : clusters \in [1..n -> ClusterIds] } :
            n \in 1..MaxFiles }

\* The results of clustering one or two rows.
SmallClusteringResults == { r \in ClusteringResults : Len(r.file_paths) <= 2 }

\* A SmartFileSystem whose output_generator is OutputGenerator(clustering_results)
\* (the assignment of cluster_files), over a directory of three files and a
\* store nothing has been indexed into yet.
InitClustered ==
  /\ db_path \in DbPaths
  /\ fs = [p \in Paths |-> CASE p.suffix = ".txt" -> TextX
                             [] p.suffix = ".MD"  -> TextY
                             [] OTHER             -> Binary]
  /\ db = _init_db(EmptyDatabase)
  /\ output_generator \in { OutputGenerator(r) : r \in SmallClusteringResults }
  /\ out_files = [o \in OutPaths |-> None]
  /\ last = Call("OutputGenerator", NoArg, NoEnv, "None", None)
  /\ indexed = [p \in Paths |-> None]
  /\ calls = <<>>
  /\ clustering = None

NextClustered ==
  \/ \E walk \in Walks, faults \in FaultSets : IndexDirectory("d", walk, faults)
  \/ IndexDirectory("missing", <<>>, {})
  \/ ClusterFiles
  \/ \E output_path \in OutPaths, format \in Formats, write_error \in BOOLEAN :
       GenerateReport(output_path, format, write_error)
  \/ \E output_path \in OutPaths \cup {""} : VisualizeClusters(output_path)

SpecClustered == InitClustered /\ [][NextClustered]_vars

\* A SmartFileSystem whose output_generator is None or an OutputGenerator
\* constructed on any clustering result of up to MaxFiles rows, in an empty
\* directory; its reports are generated and saved.
InitReport ==
  /\ db_path = "file_index.db"
  /\ fs = [p \in Paths |-> None]
  /\ db = _init_db(EmptyDatabase)
  /\ output_generator \in { OutputGenerator(r) : r \in ClusteringResults }
                           \cup {None}
  /\ out_files = [o \in OutPaths |-> None]
  /\ last = Call("OutputGenerator", NoArg, NoEnv, "None", None)
  /\ indexed = [p \in Paths |-> None]
  /\ calls = <<>>
  /\ clustering = None

NextReport ==
  \/ \E output_path \in OutPaths, format \in Formats, write_error \in BOOLEAN :
       GenerateReport(output_path, format, write_error)
  \/ \E output_path \in OutPaths \cup {""} : VisualizeClusters(output_path)

SpecReport == InitReport /\ [][NextReport]_vars

(***************************************************************************)
(* FileIndexer.index_file run by two processes on one database file        *)
(***************************************************************************)

\* The processes that call index_file side by side.
Procs == {1, 2}

\* The files the two calls index, and the versions another program writes
\* to a.txt while they run.
CallPaths == {Path("d", "a", ".txt"), Path("d", "b", ".MD")}
WrittenVersions == {TextX, TextY}

\* The local variables of a call of index_file(file_path) that has not run
\* its first statement.
Entered(file_path) ==
  [ pc            |-> "file_hash",
    file_path     |-> file_path,
    file_hash     |-> <<>>,
    last_modified |-> 0,
    size          |-> 0,
    metadata      |-> {},
    embedding     |-> None,
    ret           |-> FALSE ]

\* The parameters of the INSERT OR REPLACE a call executes, from its locals.
Parameters(call) ==
  [ path          |-> call.file_path,
    file_hash     |-> call.file_hash,
    last_modified |-> call.last_modified,
    size          |-> call.size,
    file_type     |-> Lower(call.file_path.suffix),
    metadata      |-> call.metadata,
    embedding     |-> call.embedding ]

\* The process whose connection holds the write lock of the database file:
\* it has executed its INSERT and has not committed.
Writers == {j \in Procs : calls[j].pc = "commit"}

\* file_hash = self._calculate_file_hash(file_path): opens the file and
\* reads all of it.
FileHash(i) ==
  /\ calls[i].pc = "file_hash"
  /\ calls' = [calls EXCEPT
       ![i].file_hash = _calculate_file_hash(fs[calls[i].file_path].bytes),
       ![i].pc = "last_modified"]
  /\ UNCHANGED <<clustering, db_path, fs, db, output_generator, out_files,
                 last, indexed>>

\* last_modified = file_path.stat().st_mtime
StatMtime(i) ==
  /\ calls[i].pc = "last_modified"
  /\ calls' = [calls EXCEPT
       ![i].last_modified = fs[calls[i].file_path].mtime,
       ![i].pc = "size"]
  /\ UNCHANGED <<clustering, db_path, fs, db, output_generator, out_files,
                 last, indexed>>

\* size = file_path.stat().st_size
StatSize(i) ==
  /\ calls[i].pc = "size"
  /\ calls' = [calls EXCEPT
       ![i].size = Len(fs[calls[i].file_path].bytes),
       ![i].pc = "content"]
  /\ UNCHANGED <<clustering, db_path, fs, db, output_generator, out_files,
                 last, indexed>>

\* The text branch: the file is opened again and read, and the embedding and
\* the metadata are computed from what was read.
ReadContent(i) ==
  /\ calls[i].pc = "content"
  /\ Lower(calls[i].file_path.suffix) \in TextTypes
  /\ Decodable(fs[calls[i].file_path].bytes)
  /\ \E content \in {Decode(fs[calls[i].file_path].bytes)} :
       calls' = [calls EXCEPT
         ![i].embedding = Blob(_generate_embedding(content)),
         ![i].metadata = { <<"content_length", Len(content)>>,
                           <<"lines", Count(content, "nl") + 1>> },
         ![i].pc = "execute"]
  /\ UNCHANGED <<clustering, db_path, fs, db, output_generator, out_files,
                 last, indexed>>

\* sqlite3.connect(self.db_path) and conn.execute(INSERT OR REPLACE ...): the
\* statement takes the write lock of the database file, which it gets when
\* no other connection holds it.
Execute(i) ==
  /\ calls[i].pc = "execute"
  /\ Writers = {}
  /\ calls' = [calls EXCEPT ![i].pc = "commit"]
  /\ UNCHANGED <<clustering, db_path, fs, db, output_generator, out_files,
                 last, indexed>>

\* The statement waits for the lock for the default timeout of
\* sqlite3.connect (5 seconds); when another connection still holds it,
\* sqlite3.OperationalError "database is locked" is raised, the except
\* branch prints it and index_file returns False.
Timeout(i) ==
  /\ calls[i].pc = "execute"
  /\ Writers /= {}
  /\ calls' = [calls EXCEPT ![i].pc = "return", ![i].ret = FALSE]
  /\ last' = Call("index_file",
                  [file_path |-> calls[i].file_path, process |-> i], NoEnv,
                  "None", [ok |-> FALSE])
  /\ UNCHANGED <<clustering, db_path, fs, db, output_generator, out_files,
                 indexed>>

\* conn.commit(): the row is published in one step, the lock is released
\* and index_file returns True.
ConnCommit(i) ==
  /\ calls[i].pc = "commit"
  /\ db' = Commit(db, InsertOrReplace(Connect(db), Parameters(calls[i])))
  /\ calls' = [calls EXCEPT ![i].pc = "return", ![i].ret = TRUE]
  /\ last' = Call("index_file",
                  [file_path |-> calls[i].file_path, process |-> i], NoEnv,
                  "None", [ok |-> TRUE])
  /\ UNCHANGED <<clustering, db_path, fs, output_generator, out_files,
                 indexed>>

\* Two processes have each constructed a FileIndexer on the same database
\* file and entered index_file; a.txt and b.MD hold text.
InitConcurrent ==
  /\ db_path = "file_index.db"
  /\ fs \in { f \in [Paths -> WrittenVersions \cup {None}] :
               \A p \in Paths : (f[p] /= None) = (p \in CallPaths) }
  /\ db = _init_db(EmptyDatabase)
  /\ output_generator = None
  /\ out_files = [o \in OutPaths |-> None]
  /\ last = Call("__init__", [db_path |-> db_path], NoEnv, "None", None)
  /\ indexed = [p \in Paths |-> None]
  /\ calls \in { c \in [Procs -> {Entered(p) : p \in CallPaths}] : TRUE }
  /\ clustering = None

NextConcurrent ==
  \/ \E i \in Procs : FileHash(i)
  \/ \E i \in Procs : StatMtime(i)
  \/ \E i \in Procs : StatSize(i)
  \/ \E i \in Procs : ReadContent(i)
  \/ \E i \in Procs : Execute(i)
  \/ \E i \in Procs : Timeout(i)
  \/ \E i \in Procs : ConnCommit(i)
  \/ \E version \in WrittenVersions : WriteFile(Path("d", "a", ".txt"), version)

SpecConcurrent == InitConcurrent /\ [][NextConcurrent]_vars

(***************************************************************************)
(* A run of cluster_files from the reduction on                            *)
(***************************************************************************)

\* The local variables of FileClusterer.cluster_files once embeddings and
\* file_paths hold the n stored rows (line 31), in its run-th call; earlier
\* is what the call before computed.
Clustering(n, run, earlier) ==
  [ pc                 |-> "reduced_embeddings",
    run                |-> run,
    earlier            |-> earlier,
    embeddings         |-> [i \in 1..n |-> ClusteredEmbedding(i)],
    file_paths         |-> [i \in 1..n |-> ClusteredPath(i)],
    reduced_embeddings |-> <<>>,
    clusters           |-> <<>>,
    cluster_labels     |-> <<>> ]

\* reduced_embeddings = self._reduce_dimensionality(embeddings)
ReduceDimensionality(random_state) ==
  /\ clustering.pc = "reduced_embeddings"
  /\ clustering' = [clustering EXCEPT
       !.reduced_embeddings = _reduce_dimensionality(clustering.embeddings, random_state),
       !.pc = "clusters"]
  /\ UNCHANGED <<calls, db_path, fs, db, output_generator, out_files, last,
                 indexed>>

\* clusters = self.cluster_model.fit_predict(reduced_embeddings): one id of
\* ClusterIds for each row, the same ids as the call before for the same
\* reduced rows.
FitPredict(clusters) ==
  /\ clustering.pc = "clusters"
  /\ ( /\ clustering.earlier /= None
       /\ clustering.earlier.reduced_embeddings = clustering.reduced_embeddings )
       => clusters = clustering.earlier.clusters
  /\ clustering' = [clustering EXCEPT !.clusters = clusters,
                                      !.pc = "cluster_labels"]
  /\ UNCHANGED <<calls, db_path, fs, db, output_generator, out_files, last,
                 indexed>>

\* cluster_labels = self._generate_cluster_labels(embeddings, clusters, file_paths)
GenerateClusterLabels ==
  /\ clustering.pc = "cluster_labels"
  /\ clustering' = [clustering EXCEPT
       !.cluster_labels = _generate_cluster_labels(clustering.embeddings,
                                                   clustering.clusters,
                                                   clustering.file_paths),
       !.pc = "return"]
  /\ UNCHANGED <<calls, db_path, fs, db, output_generator, out_files, last,
                 indexed>>

\* The dict FileClusterer.cluster_files returns, from its locals.
clustering_results(locals) ==
  [ file_paths         |-> locals.file_paths,
    clusters           |-> locals.clusters,
    cluster_labels     |-> locals.cluster_labels,
    reduced_embeddings |-> locals.reduced_embeddings ]

\* return clustering_results, and SmartFileSystem.cluster_files goes on from
\* its line 51 with the dict.
ReturnClusteringResults ==
  /\ clustering.pc = "return"
  /\ \E r \in { cluster_files_after([raised |-> "None",
                                     ret |-> clustering_results(clustering)],
                                    output_generator) } :
       /\ output_generator' = r.output_generator
       /\ last' = Call("cluster_files", NoArg, NoEnv, r.raised, r.ret)
  /\ clustering' = [clustering EXCEPT !.pc = "returned"]
  /\ UNCHANGED <<calls, db_path, fs, db, out_files, indexed>>

\* cluster_files is called again over the same stored rows.
ClusterAgain ==
  /\ clustering.pc = "returned"
  /\ clustering.run = 1
  /\ clustering' = Clustering(Len(clustering.file_paths), 2,
                              clustering_results(clustering))
  /\ UNCHANGED <<calls, db_path, fs, db, output_generator, out_files, last,
                 indexed>>

\* A SmartFileSystem whose clusterer has read the embeddings and paths of
\* one to MaxFiles stored rows.
InitClusterer ==
  /\ db_path = "file_index.db"
  /\ fs = [p \in Paths |-> None]
  /\ db = _init_db(EmptyDatabase)
  /\ output_generator = None
  /\ out_files = [o \in OutPaths |-> None]
  /\ last = Call("__init__", [db_path |-> db_path], NoEnv, "None", None)
  /\ indexed = [p \in Paths |-> None]
  /\ calls = <<>>
  /\ clustering \in { Clustering(n, 1, None) : n \in 1..MaxFiles }

NextClusterer ==
  \/ \E random_state \in RandomStates : ReduceDimensionality(random_state)
  \/ \E clusters \in [1..Len(clustering.file_paths) -> ClusterIds] :
       FitPredict(clusters)
  \/ GenerateClusterLabels
  \/ ReturnClusteringResults
  \/ ClusterAgain

SpecClusterer == InitClusterer /\ [][NextClusterer]_vars

(***************************************************************************)
(* Properties                                                              *)
(***************************************************************************)

\* The rows a later operation reads from the store.
Store == Connect(db).files

\* The positions of the stored rows that have an embedding.
Embedded == {i \in 1..Len(Store) : Store[i].embedding /= None}

\* The files present under "d".
Present == {p \in Paths : fs[p] /= None}

\* index_file can read the file: text-type content is UTF-8.
Readable(p) ==
  Lower(p.suffix) \in TextTypes => Decodable(fs[p].bytes)

Min(a, b) == IF a <= b THEN a ELSE b

NoOutputFile == \A o \in OutPaths : out_files[o] = None

\* C1: while no cluster_files call has succeeded (output_generator is None),
\* generate_report and visualize_clusters return the result
\* {status:'error', message:'Must cluster files first'}, raise nothing and
\* leave no output file.
C1_ReportBeforeClustering ==
  (last.op \in {"generate_report", "visualize_clusters"} /\ output_generator = None)
    => /\ last.raised = "None"
       /\ last.ret = [status |-> "error", message |-> "Must cluster files first"]
       /\ NoOutputFile

\* C1 witness: generate_report to a writable path, after files were indexed.
C1_Witness ==
  /\ last.op = "generate_report"
  /\ Writable(last.arg.output_path)
  /\ last.arg.format = "json"
  /\ output_generator = None
  /\ Len(db.files) > 0

\* C2: with no stored embedding, cluster_files returns a result with status
\* 'error' and a message, and raises nothing.
C2_ClusterWithoutEmbeddings ==
  (last.op = "cluster_files" /\ Embedded = {})
    => /\ last.raised = "None"
       /\ last.ret.status = "error"
       /\ "message" \in DOMAIN last.ret

\* C3: with a text-like file indexed, cluster_files returns status 'success'
\* and caches the clustering result (the Clustered state).
C3_ClusterAfterIndex ==
  (last.op = "cluster_files" /\ Embedded /= {})
    => /\ last.raised = "None"
       /\ last.ret.status = "success"
       /\ output_generator /= None

\* C4: visualize_clusters with a writable output path, called right after
\* cluster_files ran on a store holding embeddings, returns status 'success'
\* with that output path.
C4_VisualizeAfterCluster ==
  [][ ( /\ last.op = "cluster_files"
        /\ Embedded /= {}
        /\ last'.op = "visualize_clusters"
        /\ Writable(last'.arg.output_path) )
      => last'.ret = [status |-> "success", output_path |-> last'.arg.output_path]
    ]_vars

\* C5: index_directory on the existing directory, all of whose N files can be
\* read and none of which meets an I/O error, returns status 'success' with
\* files_indexed = N, and each file has a row in the store afterwards,
\* whatever the db_path.
C5_IndexDirectoryCountsFiles ==
  ( /\ last.op = "index_directory"
    /\ last.arg.directory_path = "d"
    /\ last.env.io_errors = {}
    /\ \A p \in Present : Readable(p) )
    => /\ last.raised = "None"
       /\ last.ret.status = "success"
       /\ last.ret.files_indexed = Cardinality(Present)
       /\ \A p \in Present : \E i \in 1..Len(Store) : Store[i].path = p

\* C6: search returns exactly min(top_k, E) results, E the number of stored
\* rows with an embedding; each is such a row, none twice, and it is no error
\* to ask for more than E.
C6_SearchReturnsMinTopK ==
  last.op = "get_similar_files"
    => /\ last.raised = "None"
       /\ Len(last.ret.list) = Min(last.arg.top_k, Cardinality(Embedded))
       /\ \A k \in 1..Len(last.ret.list) :
            \E i \in Embedded : Store[i].path = last.ret.list[k].path
       /\ \A k, m \in 1..Len(last.ret.list) :
            last.ret.list[k].path = last.ret.list[m].path => k = m

C8_SearchEmptyStore ==
  (last.op = "get_similar_files" /\ \A p \in Paths : indexed[p] = None)
    => /\ last.raised = "None"
       /\ last.ret.list = <<>>

\* The row index_file writes for a path whose file holds this version.
RowOf(path, version) ==
  [ path          |-> path,
    file_hash     |-> <<"sha256">> \o version.bytes,
    last_modified |-> version.mtime,
    size          |-> Len(version.bytes),
    file_type     |-> Lower(path.suffix),
    metadata      |-> IF Lower(path.suffix) \in TextTypes
                      THEN { <<"content_length", Len(Decode(version.bytes))>>,
                             <<"lines", Count(Decode(version.bytes), "nl") + 1>> }
                      ELSE {},
    embedding     |-> IF Lower(path.suffix) \in TextTypes
                      THEN Blob(_generate_embedding(Decode(version.bytes)))
                      ELSE None ]

\* C9: the store holds at most one row per path, and the row of a path is
\* wholly the one written by the latest index_file of the path that returned
\* True; a path no index_file succeeded on has no row.
C9_OneWholeRowPerPath ==
  \A p \in Paths :
    LET rows == {i \in 1..Len(db.files) : db.files[i].path = p} IN
    /\ Cardinality(rows) <= 1
    /\ indexed[p] = None => rows = {}
    /\ indexed[p] /= None =>
         /\ rows /= {}
         /\ \A i \in rows : db.files[i] = RowOf(p, indexed[p])

\* C9 witness: a second walk in a row has replaced the rows of a.txt and
\* b.MD, written by the walk before it, while the row of c.bin, whose file is
\* gone, is the one an earlier walk wrote.
C9_Witness ==
  /\ last.op = "index_directory"
  /\ last.env.rerun
  /\ Cardinality(last.env.succeeded) = 2
  /\ Len(db.files) = 3
  /\ db.files[1].path.suffix = ".bin"
  /\ fs[db.files[1].path] = None

\* The stored records, without their row order.
Records(database) ==
  { [ path      |-> database.files[i].path,
      file_hash |-> database.files[i].file_hash,
      size      |-> database.files[i].size,
      file_type |-> database.files[i].file_type,
      metadata  |-> database.files[i].metadata,
      embedding |-> database.files[i].embedding ] : i \in 1..Len(database.files) }

\* C10: a second index_directory on the unchanged directory, all of whose
\* files can be read, leaves the same set of records and returns
\* files_indexed equal to the number of files present.
C10_ReindexIdempotent ==
  [][ ( /\ last'.op = "index_directory"
        /\ last'.env.rerun
        /\ \A p \in Present : Readable(p) )
      => /\ Records(db') = Records(db)
         /\ last'.ret.files_indexed = Cardinality(Present)
    ]_vars

\* C11: a failure of index_file on one file (an I/O or store error, content
\* that is not UTF-8, a store without its table) does not end the walk:
\* index_directory calls index_file on every file under the directory, returns
\* status 'success', and files_indexed is the number of files index_file
\* returned True for.
C11_FailureDoesNotStopWalk ==
  (last.op = "index_directory" /\ last.arg.directory_path = "d")
    => /\ last.raised = "None"
       /\ last.ret.status = "success"
       /\ last.env.visited = Present
       /\ last.ret.files_indexed = Cardinality(last.env.succeeded)
       /\ \A p \in Present :
            p \in last.env.succeeded
              <=> /\ p \notin last.env.io_errors
                  /\ Readable(p)
                  /\ db_path /= ":memory:"

\* C11 witness: a walk over three files in which index_file failed on one for
\* an I/O error and on another for its content, and the third was indexed.
C11_Witness ==
  /\ last.op = "index_directory"
  /\ Cardinality(Present) = 3
  /\ Cardinality(last.env.io_errors) = 1
  /\ \E p \in Present \ last.env.io_errors : ~Readable(p)
  /\ last.ret.files_indexed = 1
  /\ last.env.visited = Present

\* C12: index_file on a file with a text-type extension whose content is not
\* UTF-8 returns True and stores a row for the path with its hash, size,
\* timestamp and file type and with no embedding.
C12_UndecodableStoredAsBinary ==
  ( /\ last.op = "index_directory"
    /\ last.arg.directory_path = "d"
    /\ db_path /= ":memory:" )
    => \A p \in Present \ last.env.io_errors :
         ~Readable(p)
           => /\ p \in last.env.succeeded
              /\ \E i \in 1..Len(db.files) :
                   /\ db.files[i].path = p
                   /\ db.files[i].file_hash = _calculate_file_hash(fs[p].bytes)
                   /\ db.files[i].size = Len(fs[p].bytes)
                   /\ db.files[i].last_modified = fs[p].mtime
                   /\ db.files[i].file_type = Lower(p.suffix)
                   /\ db.files[i].embedding = None

\* C13: in every state of the store, a row has an embedding exactly when its
\* file type is a text type, and a row of any other type has no embedding
\* and empty metadata.
C13_EmbeddingIffTextType ==
  \A i \in 1..Len(db.files) :
    /\ db.files[i].embedding /= None <=> db.files[i].file_type \in TextTypes
    /\ db.files[i].file_type \notin TextTypes
         => db.files[i].embedding = None /\ db.files[i].metadata = {}

\* C13 witness: the store holds the rows of a.txt, b.MD (file type ".md") and
\* c.bin, and a.txt has since been overwritten with bytes that are not UTF-8
\* and walked over again.
C13_Witness ==
  /\ Len(db.files) = 3
  /\ last.op = "index_directory"
  /\ last.env.io_errors = {}
  /\ \E p \in Present : ~Readable(p) /\ indexed[p] /= None
  /\ \E i \in 1..Len(db.files) :
       db.files[i].path.suffix = ".MD" /\ db.files[i].embedding /= None
  /\ \E i \in 1..Len(db.files) :
       db.files[i].path.suffix = ".bin" /\ db.files[i].embedding = None

\* The core call of a run failed: it raised, or returned a result with
\* status 'error'.
CoreFailed(run) ==
  \/ run.core.raised /= "None"
  \/ /\ "status" \in DOMAIN run.core.ret
     /\ run.core.ret.status = "error"

\* C14: whenever the core operation of a run of main() fails, the run prints
\* an 'Error:' line on stderr and nothing on stdout and exits with a nonzero
\* status; a run prints on stdout only when its core operation succeeded.
C14_CliReportsCoreFailure ==
  last.op = "main"
    => /\ CoreFailed(last.ret)
            => /\ \E i \in 1..Len(last.ret.stderr) :
                    last.ret.stderr[i].line = "Error:"
               /\ last.ret.stdout = <<>>
               /\ last.ret.exit /= 0
       /\ last.ret.stdout /= <<>> => ~CoreFailed(last.ret)

\* C15: the runs index, cluster, report, one right after the other on the
\* same database file, with a text file indexed and a writable --output,
\* end with the report in the output file and 'Report saved to <PATH>' on
\* stdout.
C15_CliPipelineWritesReport ==
  ( /\ last.op = "main"
    /\ last.env.pipeline = 3
    /\ db_path /= ":memory:"
    /\ Embedded /= {}
    /\ Writable(last.arg.output) )
    => /\ last.ret.stdout =
            << [line |-> "Report saved to", output |-> last.arg.output] >>
       /\ out_files[last.arg.output] /= None

\* C16: index_directory is accepted whatever output_generator holds, and a
\* call of it, whether it succeeds, indexes new files or raises, leaves
\* output_generator as it was: a cached clustering result stays cached, with
\* the same assignment and labels.
C16_IndexKeepsClustering ==
  [][ last'.op = "index_directory"
        => /\ output_generator' = output_generator
           /\ last'.arg.directory_path = "d"
                => last'.raised = "None" /\ last'.ret.status = "success"
           /\ last'.arg.directory_path = "missing"
                => last'.raised = "FileNotFoundError"
    ]_vars

\* C16 witness: with a clustering result of two clusters cached,
\* index_directory has indexed three new files.
C16_Witness ==
  /\ last.op = "index_directory"
  /\ output_generator /= None
  /\ Cardinality(Range(output_generator.clustering_results.clusters)) = 2
  /\ Cardinality(last.env.succeeded) = 3
  /\ Len(db.files) = 3

\* The report that the last generate_report saved.
SavedReport == out_files[last.arg.output_path].report
ReportSaved == last.op = "generate_report" /\ last.ret.status = "success"
Assignment == output_generator.clustering_results.clusters
ClusteredPaths == output_generator.clustering_results.file_paths

\* C18: total_clusters of a report is the number of distinct cluster ids
\* other than -1 in the assignment, also when no row is noise and when every
\* row is.
C18_TotalClustersExcludesNoise ==
  ReportSaved
    => SavedReport.total_clusters = Cardinality(Range(Assignment) \ {-1})

\* C19: cluster_details of a report has exactly one entry for each distinct
\* id of the assignment, the noise id -1 among them under the label
\* "Uncategorized"; the file_count of an entry is the number of rows assigned
\* to its id, and the counts add up to total_files, the number of clustered
\* paths.
C19_ReportCountsEveryCluster ==
  ReportSaved
    => LET details == SavedReport.cluster_details
           RECURSIVE SumCounts(_)
           SumCounts(k) == IF k = 0 THEN 0
                           ELSE details[k].file_count + SumCounts(k - 1)
       IN  /\ \A c \in Range(Assignment) :
                Cardinality({k \in 1..Len(details) : details[k].cluster_id = c}) = 1
           /\ \A k \in 1..Len(details) :
                /\ details[k].cluster_id \in Range(Assignment)
                /\ details[k].file_count =
                     Cardinality({i \in 1..Len(Assignment) :
                                    Assignment[i] = details[k].cluster_id})
                /\ details[k].cluster_id = -1
                     => details[k].label = [text |-> "Uncategorized"]
           /\ SumCounts(Len(details)) = SavedReport.total_files
           /\ SavedReport.total_files = Len(ClusteredPaths)

\* C19 witness: a saved report of four rows, one of them noise, the others
\* in two clusters.
C19_Witness ==
  /\ ReportSaved
  /\ Len(Assignment) = 4
  /\ Range(Assignment) = {-1, 0, 1}
  /\ Cardinality({i \in 1..4 : Assignment[i] = -1}) = 1
  /\ Len(SavedReport.cluster_details) = 3

\* C20: example_files of each entry of a report has min(3, file_count)
\* names; the k-th is the basename of the k-th row, in row order, assigned to
\* the entry's cluster.
C20_ExampleFilesFirstMembers ==
  ReportSaved
    => \A k \in 1..Len(SavedReport.cluster_details) :
         LET entry == SavedReport.cluster_details[k]
             Assigned == {i \in 1..Len(Assignment) : Assignment[i] = entry.cluster_id}
             Nth(m) == CHOOSE i \in Assigned :
                         Cardinality({j \in Assigned : j < i}) = m - 1
         IN  /\ Len(entry.example_files) = Min(3, entry.file_count)
             /\ \A m \in 1..Len(entry.example_files) :
                  /\ entry.example_files[m] = Name(ClusteredPaths[Nth(m)])
                  /\ \E i \in Assigned :
                       entry.example_files[m] = Name(ClusteredPaths[i])

\* C20 witness: a saved report with a cluster of four rows, of which the
\* first two have the same basename and the fourth is not among the examples.
C20_Witness ==
  /\ ReportSaved
  /\ Len(Assignment) = 4
  /\ Range(Assignment) = {0}
  /\ Len(SavedReport.cluster_details[1].example_files) = 3
  /\ SavedReport.cluster_details[1].example_files[1]
       = SavedReport.cluster_details[1].example_files[2]

\* C21: a generate_report that fails (a path that cannot be written, an
\* error during the write, a format that is not supported) returns the error
\* result with a message, and the target then holds a complete report or
\* exactly what it held before the call.
C21_FailedReportLeavesTarget ==
  [][ ( /\ last'.op = "generate_report"
        /\ last'.raised = "None"
        /\ last'.ret.status = "error" )
        => /\ "message" \in DOMAIN last'.ret
           /\ \/ out_files'[last'.arg.output_path] = out_files[last'.arg.output_path]
              \/ /\ "report" \in DOMAIN out_files'[last'.arg.output_path]
                 /\ out_files'[last'.arg.output_path].report
                      = generate_cluster_report(output_generator)
    ]_vars

\* The rows of the store for a path.
RowsOf(database, path) == SelectSeq(database.files, LAMBDA r : r.path = path)

\* C22: an index_file that returns False, whatever made it fail, leaves the
\* rows of the store as they were, the row stored earlier for its own path
\* among them: after a walk, the row of each path index_file failed on is the
\* one from before, and a walk in which no index_file succeeds leaves the
\* whole store unchanged.
C22_FailedIndexKeepsStore ==
  [][ last'.op = "index_directory"
        => /\ \A p \in Paths :
                p \notin last'.env.succeeded => RowsOf(db', p) = RowsOf(db, p)
           /\ last'.env.succeeded = {} => db' = db
    ]_vars

\* C22 witness: in a walk over three files index_file failed on two whose
\* content had changed since they were indexed, on one for an I/O or store
\* error and on the other because its content is no longer UTF-8, and the
\* rows an earlier walk stored for the two are still there.
C22_Witness ==
  /\ last.op = "index_directory"
  /\ Cardinality(last.env.visited) = 3
  /\ Cardinality(last.env.succeeded) = 1
  /\ \E p \in last.env.io_errors :
       /\ indexed[p] /= None
       /\ fs[p] /= indexed[p]
       /\ RowsOf(db, p) = <<RowOf(p, indexed[p])>>
  /\ \E p \in last.env.visited \ last.env.io_errors :
       /\ ~Readable(p)
       /\ indexed[p] /= None
       /\ RowsOf(db, p) = <<RowOf(p, indexed[p])>>

\* C23: when two index_file calls run side by side, a call that commits
\* leaves, as the row of its path, exactly the row built from its own locals,
\* and once both calls have returned, calls for different paths have both
\* returned True and both rows are in the store.
C23_ConcurrentUpsertsTakeEffect ==
  [][ /\ \A i \in Procs :
           (calls[i].pc = "commit" /\ calls'[i].pc = "return")
             => RowsOf(db', calls[i].file_path) = <<Parameters(calls[i])>>
      /\ \A i, j \in Procs :
           ( /\ calls'[i].pc = "return"
             /\ calls'[j].pc = "return"
             /\ calls'[i].file_path /= calls'[j].file_path )
             => /\ calls'[i].ret
                /\ RowsOf(db', calls'[i].file_path) = <<Parameters(calls'[i])>>
    ]_vars

\* C30: every stored row describes one version of the file's bytes: its
\* hash, size, timestamp, embedding and metadata are those of one version
\* the file has held, also when the file is written while index_file runs.
C30_RecordOfOneVersion ==
  \A i \in 1..Len(db.files) :
    \E version \in FileVersions(db.files[i].path) :
      db.files[i] = RowOf(db.files[i].path, version)

\* C24: a second run of cluster_files over the same stored rows computes
\* the same reduced embeddings, the same assignment and the same labels as
\* the first.
C24_ClusteringReproducible ==
  (clustering /= None /\ clustering.run = 2)
    => /\ clustering.pc \notin {"reduced_embeddings"}
            => clustering.reduced_embeddings = clustering.earlier.reduced_embeddings
       /\ clustering.pc \in {"cluster_labels", "return", "returned"}
            => clustering.clusters = clustering.earlier.clusters
       /\ clustering.pc \in {"return", "returned"}
            => clustering.cluster_labels = clustering.earlier.cluster_labels

\* C25: the label map of a run has exactly the distinct ids of the
\* assignment as its keys; -1 maps to "Uncategorized", any other id c to the
\* label "Cluster c: name" where name is the basename of a row assigned to c.
C25_LabelPerCluster ==
  (clustering /= None /\ clustering.pc \in {"return", "returned"})
    => /\ DOMAIN clustering.cluster_labels = Range(clustering.clusters)
       /\ \A c \in Range(clustering.clusters) :
            IF c = -1
            THEN clustering.cluster_labels[c] = [text |-> "Uncategorized"]
            ELSE /\ clustering.cluster_labels[c].text = "Cluster"
                 /\ clustering.cluster_labels[c].cluster_id = c
                 /\ \E i \in 1..Len(clustering.clusters) :
                      /\ clustering.clusters[i] = c
                      /\ clustering.cluster_labels[c].name
                           = Name(clustering.file_paths[i])

\* C25 witness: a run over four rows has labelled an assignment with a noise
\* row and a cluster of three, whose label names the second member, a
\* basename the first member and the noise row do not have.
C25_Witness ==
  /\ clustering /= None
  /\ clustering.pc = "returned"
  /\ clustering.clusters = <<-1, 0, 0, 0>>
  /\ clustering.cluster_labels[-1] = [text |-> "Uncategorized"]
  /\ clustering.cluster_labels[0].name = Name(clustering.file_paths[3])
  /\ clustering.cluster_labels[0].name /= Name(clustering.file_paths[2])
  /\ clustering.cluster_labels[0].name /= Name(clustering.file_paths[1])

\* C26: when the clusterer has returned its result, SmartFileSystem.cluster_files
\* returns status 'success' with clusters_found the number of distinct ids
\* other than -1 of the assignment, which is also the total_clusters of the
\* report of the run.
C26_ClustersFoundCountsClusters ==
  (clustering /= None /\ clustering.pc = "returned")
    => /\ last.op = "cluster_files"
       /\ last.raised = "None"
       /\ last.ret.status = "success"
       /\ last.ret.clusters_found
            = Cardinality(Range(clustering.clusters) \ {-1})
       /\ output_generator /= None
       /\ last.ret.clusters_found
            = generate_cluster_report(output_generator).total_clusters

C29_ReportCallsReturnStatus ==
  last.op \in {"generate_report", "visualize_clusters"}
    => /\ last.raised = "None"
       /\ "status" \in DOMAIN last.ret
       /\ last.ret.status \in {"success", "error"}
       /\ last.ret.status = "error" => "message" \in DOMAIN last.ret

\* C29 witness: with a clustering result cached, generate_report was asked
\* for the format "xml" and returned the error result of the ValueError.
C29_Witness ==
  /\ last.op = "generate_report"
  /\ output_generator /= None
  /\ last.arg.format = "xml"
  /\ last.raised = "None"
  /\ last.ret = [status |-> "error", message |-> "ValueError"]

====
